---- MODULE Spec2Model ----
(***************************************************************************)
(* wealth_sim: the Fund ledger engine (wealth_fund.py) driving one         *)
(* transfer schedule (transfer_schedule.py).                               *)
(*                                                                         *)
(* Dates are records [year, month, day] with the arithmetic of Python's    *)
(* datetime.date.  Money is an integer number of thousandths of a          *)
(* currency unit, so that cent rounding (nearest_hundredth) is visible.    *)
(* The code computes in binary floating point; the model computes the      *)
(* same expressions exactly, on inputs for which they are integers.        *)
(***************************************************************************)
EXTENDS Integers, Sequences, FiniteSets, TLC

(***************************************************************************)
(* datetime.date                                                           *)
(***************************************************************************)
MkDate(y, m, d) == [year |-> y, month |-> m, day |-> d]

IsLeap(y) == (y % 4 = 0) /\ ((y % 100 # 0) \/ (y % 400 = 0))

DaysInMonth(y, m) ==
    IF m = 2 THEN (IF IsLeap(y) THEN 29 ELSE 28)
    ELSE IF m \in {4, 6, 9, 11} THEN 30 ELSE 31

\* date(y, m, d) raises ValueError unless the month has a day d
IsValidDate(dt) ==
    /\ dt.year \in 1..9999
    /\ dt.month \in 1..12
    /\ dt.day \in 1..DaysInMonth(dt.year, dt.month)

DaysBeforeMonthTable == <<0, 31, 59, 90, 120, 151, 181, 212, 243, 273, 304, 334>>

DaysBeforeMonth(y, m) ==
    DaysBeforeMonthTable[m] + (IF m > 2 /\ IsLeap(y) THEN 1 ELSE 0)

DaysBeforeYear(y) ==
    LET p == y - 1 IN p * 365 + (p \div 4) - (p \div 100) + (p \div 400)

\* date.toordinal(): January 1 of year 1 is day 1
Ordinal(dt) == DaysBeforeYear(dt.year) + DaysBeforeMonth(dt.year, dt.month) + dt.day

\* date.fromordinal(), the algorithm of datetime._ord2ymd
FromOrdinal(ord) ==
    LET n0   == ord - 1
        n400 == n0 \div 146097
        r400 == n0 % 146097
        n100 == r400 \div 36524
        r100 == r400 % 36524
        n4   == r100 \div 1461
        r4   == r100 % 1461
        n1   == r4 \div 365
        n    == r4 % 365
        y    == n400 * 400 + 1 + n100 * 100 + n4 * 4 + n1
    IN  IF n1 = 4 \/ n100 = 4
        THEN MkDate(y - 1, 12, 31)
        ELSE LET m0 == (n + 50) \div 32
                 p0 == DaysBeforeMonth(y, m0)
                 m  == IF p0 > n THEN m0 - 1 ELSE m0
                 p  == IF p0 > n THEN p0 - DaysInMonth(y, m0 - 1) ELSE p0
             IN  MkDate(y, m, n - p + 1)

DateLT(a, b) == Ordinal(a) < Ordinal(b)
DateLE(a, b) == Ordinal(a) <= Ordinal(b)

\* (a - b).days
DaysBetween(a, b) == Ordinal(a) - Ordinal(b)

\* dt + timedelta(days=n)
AddDays(dt, n) == FromOrdinal(Ordinal(dt) + n)

\* BaseTransferSchedule.null_date
null_date == MkDate(1, 1, 1)

(***************************************************************************)
(* Frequency, FundTransactionType, FundTransaction                         *)
(***************************************************************************)
Frequency == {"MONTHLY", "SEMIMONTHLY", "BIWEEKLY", "ONCE", "NONE"}

FundTransactionType ==
    {"INSUFFICIENT_FUNDS", "PERIODIC", "ONE_TIME", "PERIODIC_CHANGE", "GROWTH",
     "BALANCE", "CONTRIBUTION_SUMMARY", "APY", "INFLATION"}

FundTransaction(txn_date, amount, txn_type, desc) ==
    [date |-> txn_date, amount |-> amount, type |-> txn_type, description |-> desc]

\* [x for i in range(n)]: empty when n <= 0
Repeat(x, n) == [i \in 1..n |-> x]

(***************************************************************************)
(* BaseTransferSchedule.  A schedule is a record; an operation that        *)
(* mutates it and returns a list yields [sched, transfers].                *)
(***************************************************************************)
BaseSchedule(frequency, amount, start_date, last_transfer_date, transfer_day) ==
    [frequency |-> frequency,
     amount |-> amount,
     start_date |-> start_date,
     last_transfer_date |-> last_transfer_date,
     transfer_day |-> transfer_day,
     future_one_time_transfers |-> << >>]

\* list.sort(key=lambda item: item[0]): a stable sort by date
RECURSIVE SortByDate(_)
SortByDate(q) ==
    IF Len(q) <= 1 THEN q
    ELSE LET rest == SortByDate(SubSeq(q, 1, Len(q) - 1))
             x    == q[Len(q)]
         IN  SelectSeq(rest, LAMBDA t : DateLE(t[1], x[1]))
             \o <<x>>
             \o SelectSeq(rest, LAMBDA t : DateLT(x[1], t[1]))

AddOneTimeTransfer(s, amount, transfer_date) ==
    [s EXCEPT !.future_one_time_transfers =
        SortByDate(Append(s.future_one_time_transfers, <<transfer_date, amount>>))]

OneTimeRecord(t) == FundTransaction(t[1], t[2], "ONE_TIME", "")

\* a drain that returns the due one-time transfers and leaves them queued
GetOneTimeTransfersToDateKept(s, next_date) ==
    LET q   == s.future_one_time_transfers
        due == SelectSeq(q, LAMBDA t : DateLE(t[1], next_date))
    IN  [sched     |-> s,
         transfers |-> [i \in 1..Len(due) |-> OneTimeRecord(due[i])]]

GetOneTimeTransfersToDate(s, next_date) ==
    LET q    == s.future_one_time_transfers
        due  == SelectSeq(q, LAMBDA t : DateLE(t[1], next_date))
        keep == SelectSeq(q, LAMBDA t : ~DateLE(t[1], next_date))
    IN  [sched     |-> [s EXCEPT !.future_one_time_transfers = keep],
         transfers |-> [i \in 1..Len(due) |-> OneTimeRecord(due[i])]]

\* an inflation that adds the rate instead of scaling by it
InflatedAdditive(value, inflation_percent_rate) == value + inflation_percent_rate

\* value * (1 + inflation_percent_rate/100)
Inflated(value, inflation_percent_rate) ==
    (value * (100 + inflation_percent_rate)) \div 100

\* an inflation that passes over the queued one-time transfers
InflatePeriodicOnly(s, inflation_percent_rate) ==
    [s EXCEPT !.amount = Inflated(s.amount, inflation_percent_rate)]

InflateTransferAmounts(s, inflation_percent_rate) ==
    [s EXCEPT
        !.amount = Inflated(s.amount, inflation_percent_rate),
        !.future_one_time_transfers =
            [i \in 1..Len(s.future_one_time_transfers) |->
                <<s.future_one_time_transfers[i][1],
                  Inflated(s.future_one_time_transfers[i][2], inflation_percent_rate)>>]]

(***************************************************************************)
(* NoneSchedule                                                            *)
(***************************************************************************)
NoneSchedule == BaseSchedule("NONE", 0, null_date, null_date, 0)

NoneGetTransfersUntil(s, next_date) ==
    GetOneTimeTransfersToDate([s EXCEPT !.last_transfer_date = next_date], next_date)

(***************************************************************************)
(* MonthlySchedule                                                         *)
(***************************************************************************)
MonthlyGetRelativeTransferDate(s, months_elapsed) ==
    LET k == s.last_transfer_date.month - 1 + months_elapsed
    IN  MkDate(s.last_transfer_date.year + (k \div 12), (k % 12) + 1, s.transfer_day)

MonthlySchedule(amount, start_date) ==
    LET s0 == BaseSchedule("MONTHLY", amount, start_date, start_date, start_date.day)
    IN  [s0 EXCEPT !.last_transfer_date = MonthlyGetRelativeTransferDate(s0, -1)]

\* MonthlySchedule(amount, start_date) raises ValueError: the date one month
\* before start_date, on the same day of the month, does not exist
MonthlyScheduleRaises(amount, start_date) ==
    LET s0 == BaseSchedule("MONTHLY", amount, start_date, start_date, start_date.day)
    IN  ~IsValidDate(MonthlyGetRelativeTransferDate(s0, -1))

\* get_transfers_until raises ValueError at the cursor update, before anything
\* is assigned: the month the cursor would move to has no day transfer_day
MonthlyGetTransfersUntilRaises(s, next_date) ==
    /\ DateLT(s.last_transfer_date, next_date)
    /\ LET m0 == 12 * (next_date.year - s.last_transfer_date.year)
                 + (next_date.month - s.last_transfer_date.month)
           months_elapsed ==
               IF m0 > 0 /\ next_date.day < s.transfer_day THEN m0 - 1 ELSE m0
       IN  ~IsValidDate(MonthlyGetRelativeTransferDate(s, months_elapsed))

\* the month count taken from the month numbers alone, the day of the month
\* of next_date ignored
MonthlyGetTransfersUntilNoShortfall(s, next_date) ==
    IF DateLT(s.last_transfer_date, next_date)
    THEN LET months_elapsed == 12 * (next_date.year - s.last_transfer_date.year)
                               + (next_date.month - s.last_transfer_date.month)
             s1 == [s EXCEPT !.last_transfer_date =
                       MonthlyGetRelativeTransferDate(s, months_elapsed)]
             once == GetOneTimeTransfersToDate(s1, next_date)
         IN  [sched     |-> once.sched,
              transfers |->
                  Repeat(FundTransaction(next_date, s.amount, "PERIODIC", "Monthly"),
                         months_elapsed)
                  \o once.transfers]
    ELSE [sched |-> s, transfers |-> << >>]

MonthlyGetTransfersUntil(s, next_date) ==
    IF DateLT(s.last_transfer_date, next_date)
    THEN LET m0 == 12 * (next_date.year - s.last_transfer_date.year)
                   + (next_date.month - s.last_transfer_date.month)
             months_elapsed ==
                 IF m0 > 0 /\ next_date.day < s.transfer_day THEN m0 - 1 ELSE m0
             s1 == [s EXCEPT !.last_transfer_date =
                       MonthlyGetRelativeTransferDate(s, months_elapsed)]
             once == GetOneTimeTransfersToDate(s1, next_date)
         IN  [sched     |-> once.sched,
              transfers |->
                  Repeat(FundTransaction(next_date, s.amount, "PERIODIC", "Monthly"),
                         months_elapsed)
                  \o once.transfers]
    ELSE [sched |-> s, transfers |-> << >>]

(***************************************************************************)
(* BiweeklySchedule                                                        *)
(***************************************************************************)
BiweeklyGetRelativeTransferDate(s, two_week_periods) ==
    AddDays(s.last_transfer_date, two_week_periods * 14)

\* a schedule primed two periods before its start date
BiweeklyScheduleEarly(amount, start_date) ==
    LET s0 == BaseSchedule("BIWEEKLY", amount, start_date, start_date, 0)
    IN  [s0 EXCEPT !.last_transfer_date = BiweeklyGetRelativeTransferDate(s0, -2)]

BiweeklySchedule(amount, start_date) ==
    LET s0 == BaseSchedule("BIWEEKLY", amount, start_date, start_date, 0)
    IN  [s0 EXCEPT !.last_transfer_date = BiweeklyGetRelativeTransferDate(s0, -1)]

\* one period counted for every 7 days elapsed
BiweeklyGetTransfersUntilWeekly(s, next_date) ==
    IF DateLT(s.last_transfer_date, next_date)
    THEN LET p0 == DaysBetween(next_date, s.last_transfer_date) \div 7
             two_week_periods == IF p0 < 0 THEN 0 ELSE p0
             s1 == [s EXCEPT !.last_transfer_date =
                       BiweeklyGetRelativeTransferDate(s, two_week_periods)]
             once == GetOneTimeTransfersToDate(s1, next_date)
         IN  [sched     |-> once.sched,
              transfers |->
                  Repeat(FundTransaction(next_date, s.amount, "PERIODIC", "Biweekly"),
                         two_week_periods)
                  \o once.transfers]
    ELSE [sched |-> s, transfers |-> << >>]

BiweeklyGetTransfersUntil(s, next_date) ==
    IF DateLT(s.last_transfer_date, next_date)
    THEN LET p0 == (DaysBetween(next_date, s.last_transfer_date) \div 7) \div 2
             two_week_periods == IF p0 < 0 THEN 0 ELSE p0
             s1 == [s EXCEPT !.last_transfer_date =
                       BiweeklyGetRelativeTransferDate(s, two_week_periods)]
             once == GetOneTimeTransfersToDate(s1, next_date)
         IN  [sched     |-> once.sched,
              transfers |->
                  Repeat(FundTransaction(next_date, s.amount, "PERIODIC", "Biweekly"),
                         two_week_periods)
                  \o once.transfers]
    ELSE [sched |-> s, transfers |-> << >>]

(***************************************************************************)
(* SemiMonthlySchedule: the 1st and the 15th of the month                  *)
(***************************************************************************)
\* always the 1st of the month
GetNearest1st(next_date) == MkDate(next_date.year, next_date.month, 1)

GetNearest1stOr15th(next_date) ==
    IF next_date.day < 15
    THEN MkDate(next_date.year, next_date.month, 1)
    ELSE MkDate(next_date.year, next_date.month, 15)

SemiMonthlySchedule(amount, start_date) ==
    BaseSchedule("SEMIMONTHLY", amount, start_date,
                 GetNearest1stOr15th(AddDays(start_date, -1)), 0)

SemiMonthlyGetTransfersUntil(s, next_date) ==
    LET once    == GetOneTimeTransfersToDate(s, next_date)
        s1      == once.sched
        snapped == GetNearest1stOr15th(next_date)
    IN  IF DateLT(s1.last_transfer_date, snapped)
        THEN LET months == 12 * (snapped.year - s1.last_transfer_date.year)
                           + (snapped.month - s1.last_transfer_date.month)
                 elapsed_transfers ==
                     IF months >= 0
                     THEN months * 2
                          + (IF snapped.day > s1.last_transfer_date.day THEN 1
                             ELSE IF snapped.day < s1.last_transfer_date.day THEN -1
                             ELSE 0)
                     ELSE 0
             IN  [sched |-> IF elapsed_transfers # 0
                            THEN [s1 EXCEPT !.last_transfer_date = snapped]
                            ELSE s1,
                  transfers |->
                      once.transfers
                      \o Repeat(FundTransaction(snapped, s1.amount, "PERIODIC",
                                                "Semi-Monthly"),
                                elapsed_transfers)]
        ELSE [sched |-> s1, transfers |-> once.transfers]

(***************************************************************************)
(* The schedule interface, dispatched on the variant                       *)
(***************************************************************************)
GetTransfersUntil(s, next_date) ==
    CASE s.frequency = "MONTHLY"     -> MonthlyGetTransfersUntil(s, next_date)
      [] s.frequency = "BIWEEKLY"    -> BiweeklyGetTransfersUntil(s, next_date)
      [] s.frequency = "SEMIMONTHLY" -> SemiMonthlyGetTransfersUntil(s, next_date)
      [] OTHER                       -> NoneGetTransfersUntil(s, next_date)

\* only MonthlySchedule builds a date from a year, a month and a day
GetTransfersUntilRaises(s, next_date) ==
    s.frequency = "MONTHLY" /\ MonthlyGetTransfersUntilRaises(s, next_date)

GetNextPeriodicTransferDateRaises(s) ==
    s.frequency = "MONTHLY" /\ ~IsValidDate(MonthlyGetRelativeTransferDate(s, 1))

GetNextPeriodicTransferDate(s) ==
    CASE s.frequency = "MONTHLY"     -> MonthlyGetRelativeTransferDate(s, 1)
      [] s.frequency = "BIWEEKLY"    -> BiweeklyGetRelativeTransferDate(s, 1)
      [] s.frequency = "SEMIMONTHLY" ->
             GetNearest1stOr15th(AddDays(s.last_transfer_date, 20))
      [] OTHER                       -> null_date

\* the next periodic date, whatever one-time transfers are pending
GetNextTransferDatePeriodicOnly(s) == GetNextPeriodicTransferDate(s)

GetNextTransferDate(s) ==
    LET q == s.future_one_time_transfers
        p == GetNextPeriodicTransferDate(s)
    IN  IF Len(q) # 0 /\ (DateLT(q[1][1], p) \/ p = null_date)
        THEN q[1][1]
        ELSE p

(***************************************************************************)
(* Fund: numeric helpers                                                   *)
(***************************************************************************)
\* b ** n for an integer n >= 0
RECURSIVE Pow(_, _)
Pow(b, n) ==
    IF n = 0 THEN 1
    ELSE LET h == Pow(b, n \div 2)
         IN  IF n % 2 = 0 THEN h * h ELSE h * h * b

\* round(value * 100) / 100 on a value counted in thousandths; Python's round()
\* takes a tie to the even neighbour
NearestHundredth(value) ==
    LET q == value \div 10
        r == value % 10
    IN  10 * (IF r < 5 THEN q
              ELSE IF r > 5 THEN q + 1
              ELSE IF q % 2 = 0 THEN q ELSE q + 1)

RECURSIVE SumAmounts(_)
SumAmounts(records) ==
    IF Len(records) = 0 THEN 0
    ELSE records[1].amount + SumAmounts(Tail(records))

AddUp(contributions) == SumAmounts(contributions)

(***************************************************************************)
(* Fund: the object and its methods as functions of the object             *)
(***************************************************************************)
\* self.apy_generator: None, an iterator over the apys still to come, or a
\* callable that returns an apy
NoGenerator == [kind |-> "None", values |-> << >>]

IteratorGenerator(values) == [kind |-> "iterator", values |-> values]

CallableGenerator(value) == [kind |-> "callable", values |-> <<value>>]

NewFund(inception_date) ==
    [balance |-> 0,
     apy |-> 0,
     apy_generator |-> NoGenerator,
     daily_rate |-> 0,
     inflation_rate |-> 0,
     inception_date |-> inception_date,
     current_date |-> inception_date,
     contribution_schedule |-> NoneSchedule,
     history |-> << >>,
     total_contributions |-> 0,
     contributions_this_year |-> 0,
     total_growth |-> 0]

GetBalance(f) == NearestHundredth(f.balance)

\* a guard that lets a contribution dated today through
ContributeRejectsPastOnly(f, start_date) == DateLT(start_date, f.current_date)

\* the guard of contribute: raise FundError
ContributeRejects(f, start_date) == DateLE(start_date, f.current_date)

NewSchedule(amount, start_date, frequency) ==
    CASE frequency = "NONE"        -> NoneSchedule
      [] frequency = "MONTHLY"     -> MonthlySchedule(amount, start_date)
      [] frequency = "BIWEEKLY"    -> BiweeklySchedule(amount, start_date)
      [] frequency = "SEMIMONTHLY" -> SemiMonthlySchedule(amount, start_date)

\* a contribute that logs a one-time contribution as a change of schedule
ContributeOnceLogged(f, amount, start_date, frequency) ==
    IF frequency = "ONCE"
    THEN [f EXCEPT
             !.history = Append(f.history,
                 FundTransaction(start_date, amount, "PERIODIC_CHANGE", "")),
             !.contribution_schedule =
                 AddOneTimeTransfer(f.contribution_schedule, amount, start_date)]
    ELSE [f EXCEPT
             !.contribution_schedule = NewSchedule(amount, start_date, frequency)]

\* a contribute that logs every replacement, a change of frequency or not
ContributeAlwaysLogged(f, amount, start_date, frequency) ==
    IF frequency = "ONCE"
    THEN [f EXCEPT !.contribution_schedule =
             AddOneTimeTransfer(f.contribution_schedule, amount, start_date)]
    ELSE [f EXCEPT
             !.history =
                 Append(f.history,
                        FundTransaction(start_date, amount, "PERIODIC_CHANGE",
                            "Change from Frequency." \o f.contribution_schedule.frequency
                            \o " to Frequency." \o frequency)),
             !.contribution_schedule = NewSchedule(amount, start_date, frequency)]

\* contribute, past its guard
Contribute(f, amount, start_date, frequency) ==
    IF frequency = "ONCE"
    THEN [f EXCEPT !.contribution_schedule =
             AddOneTimeTransfer(f.contribution_schedule, amount, start_date)]
    ELSE [f EXCEPT
             !.history =
                 IF f.contribution_schedule.frequency # frequency
                 THEN Append(f.history,
                        FundTransaction(start_date, amount, "PERIODIC_CHANGE",
                            "Change from Frequency." \o f.contribution_schedule.frequency
                            \o " to Frequency." \o frequency))
                 ELSE f.history,
             !.contribution_schedule = NewSchedule(amount, start_date, frequency)]

\* daily_rate = exp(log(apy / 100 + 1) / 365) - 1.  The only apy whose daily rate
\* is an integer is 0 (exp(log(1) / 365) - 1 = 0); the model is exact and so
\* defines the conversion on that input alone.
DailyRateOfApy(apy) == CASE apy = 0 -> 0

SetApy(f, apy) == [f EXCEPT !.apy = apy, !.daily_rate = DailyRateOfApy(apy)]

\* apy = nearest_hundredth((1 + daily_rate) ** 365 - 1) * 100
SetDailyRate(f, daily_rate) ==
    [f EXCEPT !.daily_rate = daily_rate,
              !.apy = NearestHundredth(1000 * (Pow(1 + daily_rate, 365) - 1)) \div 10]

SetInflationRate(f, rate) == [f EXCEPT !.inflation_rate = rate]

SetApyGenerator(f, apy_generator) == [f EXCEPT !.apy_generator = apy_generator]

\* next(self.apy_generator) raises StopIteration, which becomes a FundError
ApyGeneratorRaises(f) ==
    f.apy_generator.kind = "iterator" /\ f.apy_generator.values = << >>

\* apply_apy_generator where it returns; where it raises it has changed nothing
ApplyApyGenerator(f) ==
    CASE f.apy_generator.kind = "callable" ->
             SetApy(f, f.apy_generator.values[1])
      [] f.apy_generator.kind = "iterator" /\ f.apy_generator.values # << >> ->
             [SetApy(f, Head(f.apy_generator.values)) EXCEPT
                 !.apy_generator.values = Tail(f.apy_generator.values)]
      [] OTHER -> f

\* a checkpoint whose records carry the first day of the new year
CloseYearDatedJanFirst(f) ==
    LET first_day == MkDate(f.current_date.year + 1, 1, 1)
    IN  [f EXCEPT
            !.contribution_schedule =
                InflateTransferAmounts(f.contribution_schedule, f.inflation_rate),
            !.history = f.history \o
                <<FundTransaction(first_day, GetBalance(f), "BALANCE", ""),
                  FundTransaction(first_day, f.apy, "APY", ""),
                  FundTransaction(first_day, f.inflation_rate, "INFLATION", ""),
                  FundTransaction(first_day,
                                  NearestHundredth(f.contributions_this_year),
                                  "CONTRIBUTION_SUMMARY",
                                  "Sum of contributions over the year")>>,
            !.contributions_this_year = 0]

\* a checkpoint that leaves the yearly counter running
CloseYearNoReset(f) ==
    LET last_day_of_year == MkDate(f.current_date.year, 12, 31)
    IN  [f EXCEPT
            !.contribution_schedule =
                InflateTransferAmounts(f.contribution_schedule, f.inflation_rate),
            !.history = f.history \o
                <<FundTransaction(last_day_of_year, GetBalance(f), "BALANCE", ""),
                  FundTransaction(last_day_of_year, f.apy, "APY", ""),
                  FundTransaction(last_day_of_year, f.inflation_rate, "INFLATION", ""),
                  FundTransaction(last_day_of_year,
                                  NearestHundredth(f.contributions_this_year),
                                  "CONTRIBUTION_SUMMARY",
                                  "Sum of contributions over the year")>>]

\* lines 98-107: the year-end records, inflation and the reset of the counter
CloseYear(f) ==
    LET last_day_of_year == MkDate(f.current_date.year, 12, 31)
    IN  [f EXCEPT
            !.contribution_schedule =
                InflateTransferAmounts(f.contribution_schedule, f.inflation_rate),
            !.history = f.history \o
                <<FundTransaction(last_day_of_year, GetBalance(f), "BALANCE", ""),
                  FundTransaction(last_day_of_year, f.apy, "APY", ""),
                  FundTransaction(last_day_of_year, f.inflation_rate, "INFLATION", ""),
                  FundTransaction(last_day_of_year,
                                  NearestHundredth(f.contributions_this_year),
                                  "CONTRIBUTION_SUMMARY",
                                  "Sum of contributions over the year")>>,
            !.contributions_this_year = 0]

\* the state do_end_of_year_accounting leaves, whether it returns or raises
DoEndOfYearAccounting(f) == ApplyApyGenerator(CloseYear(f))

\* a growth that forgets to take the balance back out
GrowthNotNet(f, elapsed_days) ==
    IF f.balance = 0 THEN 0
    ELSE f.balance * Pow(1 + f.daily_rate, elapsed_days)

\* simple interest in place of compound growth
GrowthSimple(f, elapsed_days) == f.balance * f.daily_rate * elapsed_days

\* growth = balance * ((1 + daily_rate) ** elapsed_days) - balance
Growth(f, elapsed_days) ==
    IF f.balance = 0 THEN 0
    ELSE f.balance * Pow(1 + f.daily_rate, elapsed_days) - f.balance

\* growth added to the balance and left out of total_growth
ApplyGrowthUncounted(f, new_date) ==
    LET growth == Growth(f, DaysBetween(new_date, f.current_date))
    IN  [f EXCEPT
            !.history = Append(f.history,
                FundTransaction(new_date, NearestHundredth(growth), "GROWTH", "")),
            !.balance = f.balance + growth]

\* a GROWTH record dated at the start of the sub-step
ApplyGrowthDatedAtStart(f, new_date) ==
    LET growth == Growth(f, DaysBetween(new_date, f.current_date))
    IN  [f EXCEPT
            !.history = Append(f.history,
                FundTransaction(f.current_date, NearestHundredth(growth), "GROWTH", "")),
            !.total_growth = f.total_growth + growth,
            !.balance = f.balance + growth]

\* lines 70-78: growth is booked first
ApplyGrowth(f, new_date) ==
    LET growth == Growth(f, DaysBetween(new_date, f.current_date))
    IN  [f EXCEPT
            !.history = Append(f.history,
                FundTransaction(new_date, NearestHundredth(growth), "GROWTH", "")),
            !.total_growth = f.total_growth + growth,
            !.balance = f.balance + growth]

\* lines 80-81
ApplyYearEnd(f, new_date) ==
    IF new_date.year > f.current_date.year THEN DoEndOfYearAccounting(f) ELSE f

\* a clamp that never takes the shortfall back out of the transfers
UnderflowIgnored(balance, new_contributions) == 0

\* lines 86-88: the shortfall of a sub-step whose transfers overdraw the balance
Underflow(balance, new_contributions) ==
    IF balance + new_contributions < 0 THEN balance + new_contributions ELSE 0

\* a test that also fires when the transfers bring the balance to exactly zero
IsInsolventOrEmpty(balance, new_contributions) == balance + new_contributions <= 0

\* line 86
IsInsolvent(balance, new_contributions) == balance + new_contributions < 0

\* an insolvency that cancels the whole schedule
OnInsolvencyCancel(s) == NoneSchedule

\* line 91: self.contribution_schedule.amount = 0
OnInsolvency(s) == [s EXCEPT !.amount = 0]

\* a clamp that records no INSUFFICIENT_FUNDS transaction
ApplyTransfersClampUnrecorded(f, new_date) ==
    LET got == GetTransfersUntil(f.contribution_schedule, new_date)
        new_contrib_records == got.transfers
        total == AddUp(new_contrib_records)
        insolvent == IsInsolvent(f.balance, total)
        underflow == Underflow(f.balance, total)
        new_contributions == total - underflow
    IN  [f EXCEPT
            !.history = f.history \o new_contrib_records,
            !.contribution_schedule =
                IF insolvent THEN OnInsolvency(got.sched) ELSE got.sched,
            !.contributions_this_year = f.contributions_this_year + new_contributions,
            !.total_contributions = f.total_contributions + new_contributions,
            !.balance = f.balance + new_contributions,
            !.current_date = new_date]

\* lines 83-95
ApplyTransfers(f, new_date) ==
    LET got == GetTransfersUntil(f.contribution_schedule, new_date)
        new_contrib_records == got.transfers
        total == AddUp(new_contrib_records)
        insolvent == IsInsolvent(f.balance, total)
        underflow == Underflow(f.balance, total)
        new_contributions == total - underflow
    IN  [f EXCEPT
            !.history =
                IF insolvent
                THEN (f.history \o new_contrib_records) \o
                     <<FundTransaction(new_date, NearestHundredth(underflow),
                                       "INSUFFICIENT_FUNDS", "")>>
                ELSE f.history \o new_contrib_records,
            !.contribution_schedule =
                IF insolvent THEN OnInsolvency(got.sched) ELSE got.sched,
            !.contributions_this_year = f.contributions_this_year + new_contributions,
            !.total_contributions = f.total_contributions + new_contributions,
            !.balance = f.balance + new_contributions,
            !.current_date = new_date]

\* a sub-step that closes the year after it has applied the transfers
AdvanceTimePartialTransfersFirst(f, new_date) ==
    LET t == ApplyTransfers(ApplyGrowth(f, new_date), new_date)
        y == ApplyYearEnd([t EXCEPT !.current_date = f.current_date], new_date)
    IN  [y EXCEPT !.current_date = new_date]

\* a sub-step that closes the year before it books the growth
AdvanceTimePartialYearEndFirst(f, new_date) ==
    ApplyTransfers(ApplyGrowth(ApplyYearEnd(f, new_date), new_date), new_date)

\* the year-end checkpoint of this sub-step raises FundError
AdvanceTimePartialRaises(f, new_date) ==
    new_date.year > f.current_date.year /\ ApyGeneratorRaises(f)

\* the state advance_time_partial leaves: a FundError raised at line 81 skips
\* lines 83-95
AdvanceTimePartial(f, new_date) ==
    IF AdvanceTimePartialRaises(f, new_date)
    THEN ApplyYearEnd(ApplyGrowth(f, new_date), new_date)
    ELSE ApplyTransfers(ApplyYearEnd(ApplyGrowth(f, new_date), new_date), new_date)

\* a guard that also rejects the current date
AdvanceTimeRejectsToday(f, new_date) == DateLE(new_date, f.current_date)

\* the guard of advance_time: raise FundError
AdvanceTimeRejects(f, new_date) == DateLT(new_date, f.current_date)

\* a loop that stops at January 1 only on the way to a transfer date
NextPartialDateNoYearStop(f, new_date) ==
    LET next_contrib_date == GetNextTransferDate(f.contribution_schedule)
        next_jan_first    == MkDate(f.current_date.year + 1, 1, 1)
    IN  IF DateLT(f.current_date, next_contrib_date) /\ DateLE(next_contrib_date, new_date)
        THEN (IF DateLT(next_jan_first, next_contrib_date)
              THEN next_jan_first ELSE next_contrib_date)
        ELSE new_date

\* a loop that always runs on to the next January 1, past the target
NextPartialDateOvershoot(f, new_date) == MkDate(f.current_date.year + 1, 1, 1)

\* a loop that goes to the next transfer date without asking whether it lies ahead
NextPartialDateStale(f, new_date) ==
    LET next_contrib_date == GetNextTransferDate(f.contribution_schedule)
        next_jan_first    == MkDate(f.current_date.year + 1, 1, 1)
    IN  IF DateLE(next_contrib_date, new_date) /\ next_contrib_date # null_date
        THEN (IF DateLT(next_jan_first, next_contrib_date)
              THEN next_jan_first ELSE next_contrib_date)
        ELSE (IF DateLT(next_jan_first, new_date)
              THEN next_jan_first ELSE new_date)

\* lines 56-67: where one iteration of the loop of advance_time stops
NextPartialDate(f, new_date) ==
    LET next_contrib_date == GetNextTransferDate(f.contribution_schedule)
        next_jan_first    == MkDate(f.current_date.year + 1, 1, 1)
    IN  IF DateLT(f.current_date, next_contrib_date) /\ DateLE(next_contrib_date, new_date)
        THEN (IF DateLT(next_jan_first, next_contrib_date)
              THEN next_jan_first ELSE next_contrib_date)
        ELSE (IF DateLT(next_jan_first, new_date)
              THEN next_jan_first ELSE new_date)

\* lines 51-67: the Fund a whole call of advance_time leaves, the loop run to
\* its end (or to the FundError of a sub-step); new_date is not before the
\* Fund's current date
RECURSIVE AdvanceTime(_, _)
AdvanceTime(f, new_date) ==
    IF DateLT(f.current_date, new_date)
    THEN LET d == NextPartialDate(f, new_date)
         IN  IF AdvanceTimePartialRaises(f, d)
             THEN AdvanceTimePartial(f, d)
             ELSE AdvanceTime(AdvanceTimePartial(f, d), new_date)
    ELSE f

\* the locals of one run of advance_time_partial, kept for inspection
PartialFrame(f, new_date) ==
    LET g   == ApplyYearEnd(ApplyGrowth(f, new_date), new_date)
        got == IF AdvanceTimePartialRaises(f, new_date)
               THEN [sched |-> g.contribution_schedule, transfers |-> << >>]
               ELSE GetTransfersUntil(g.contribution_schedule, new_date)
    IN  [active |-> TRUE,
         prev_date |-> f.current_date,
         new_date |-> new_date,
         elapsed_days |-> DaysBetween(new_date, f.current_date),
         growth |-> Growth(f, DaysBetween(new_date, f.current_date)),
         new_contrib_records |-> got.transfers,
         underflow |-> IF AdvanceTimePartialRaises(f, new_date) THEN 0
                       ELSE Underflow(g.balance, AddUp(got.transfers))]

NoFrame ==
    [active |-> FALSE, prev_date |-> null_date, new_date |-> null_date,
     elapsed_days |-> 0, growth |-> 0, new_contrib_records |-> << >>,
     underflow |-> 0]

(***************************************************************************)
(* The caller: a bounded sequence of calls on one Fund                     *)
(***************************************************************************)
MaxCalls == 3

Inception == MkDate(2019, 12, 18)

\* dates handed to contribute and advance_time
Dates ==
    {Inception, MkDate(2019, 12, 25), MkDate(2020, 1, 22), MkDate(2021, 1, 22)}

\* amounts in thousandths: a contribution of 1.125 and a withdrawal of 1.000
Amounts == {1125, -1000}

DailyRates == {0, -1, -2}

ApyInputs == {0}

InflationRates == {0, 100}

VARIABLES
    fund,     \* the Fund object
    pc,       \* "idle", or "advance_time" while the loop of advance_time runs
    call,     \* the last call made: its operation, arguments and outcome
    ncalls,   \* the number of calls made
    partial,  \* the locals of the last advance_time_partial, NoFrame after a call
    sched,    \* a schedule object used on its own, as a unit test uses it
    returned, \* the list its last get_transfers_until returned
    scall,    \* the last call made on sched
    nscalls   \* the number of calls made on sched

fund_vars == <<fund, pc, call, ncalls, partial>>

schedule_vars == <<sched, returned, scall, nscalls>>

vars == <<fund, pc, call, ncalls, partial, sched, returned, scall, nscalls>>

\* a call on sched and its outcome ("ok", or the exception it raised), with
\* what the call before it was and how much it returned,
\* and the caller's tally over all the calls so far: the number of PERIODIC
\* transactions returned, the date of the latest query, and whether the query
\* dates have never decreased
ScheduleCall(op, outcome, date, prev, prev_returned, got) ==
    [op |-> op, outcome |-> outcome, date |-> date,
     prev_op |-> prev.op, prev_date |-> prev.date, prev_returned |-> Len(prev_returned),
     periodic_total |->
         prev.periodic_total + Len(SelectSeq(got, LAMBDA r : r.type = "PERIODIC")),
     last_query |-> IF op = "get_transfers_until" THEN date ELSE prev.last_query,
     nondecreasing |->
         /\ prev.nondecreasing
         /\ (op = "get_transfers_until" => DateLE(prev.last_query, date))]

NoScheduleCall(date) ==
    [op |-> "init", outcome |-> "ok", date |-> date,
     prev_op |-> "-", prev_date |-> null_date, prev_returned |-> 0,
     periodic_total |-> 0, last_query |-> null_date, nondecreasing |-> TRUE]

\* no schedule is in use outside the Fund
NoScheduleUse ==
    /\ sched = NoneSchedule
    /\ returned = << >>
    /\ scall = NoScheduleCall(null_date)
    /\ nscalls = 0

Call(op, outcome, date, frequency) ==
    [op |-> op, outcome |-> outcome, date |-> date, frequency |-> frequency]

FundInit ==
    /\ fund = NewFund(Inception)
    /\ pc = "idle"
    /\ call = Call("init", "ok", Inception, "-")
    /\ ncalls = 0
    /\ partial = NoFrame

Init == FundInit /\ NoScheduleUse

CanCall == pc = "idle" /\ ncalls < MaxCalls

ContributeCall(amount, start_date, frequency) ==
    /\ UNCHANGED schedule_vars
    /\ CanCall
    /\ IF ContributeRejects(fund, start_date)
       THEN /\ fund' = fund
            /\ call' = Call("contribute", "FundError", start_date, frequency)
       ELSE /\ fund' = Contribute(fund, amount, start_date, frequency)
            /\ call' = Call("contribute", "ok", start_date, frequency)
    /\ ncalls' = ncalls + 1
    /\ partial' = NoFrame
    /\ pc' = "idle"

AdvanceTimeCall(new_date) ==
    /\ UNCHANGED schedule_vars
    /\ CanCall
    /\ IF AdvanceTimeRejects(fund, new_date)
       THEN /\ call' = Call("advance_time", "FundError", new_date, "-")
            /\ pc' = "idle"
       ELSE IF DateLT(fund.current_date, new_date)
       THEN /\ call' = Call("advance_time", "pending", new_date, "-")
            /\ pc' = "advance_time"
       ELSE /\ call' = Call("advance_time", "ok", new_date, "-")
            /\ pc' = "idle"
    /\ fund' = fund
    /\ ncalls' = ncalls + 1
    /\ partial' = NoFrame

\* one iteration of the while loop of advance_time
AdvanceTimeStep ==
    /\ UNCHANGED schedule_vars
    /\ pc = "advance_time"
    /\ LET d == NextPartialDate(fund, call.date)
       IN  /\ fund' = AdvanceTimePartial(fund, d)
           /\ partial' = PartialFrame(fund, d)
    /\ IF AdvanceTimePartialRaises(fund, NextPartialDate(fund, call.date))
       THEN /\ pc' = "idle"
            /\ call' = [call EXCEPT !.outcome = "FundError"]
       ELSE IF DateLT(fund'.current_date, call.date)
       THEN /\ pc' = "advance_time"
            /\ call' = call
       ELSE /\ pc' = "idle"
            /\ call' = [call EXCEPT !.outcome = "ok"]
    /\ ncalls' = ncalls

SetApyCall(apy) ==
    /\ UNCHANGED schedule_vars
    /\ CanCall
    /\ fund' = SetApy(fund, apy)
    /\ call' = Call("set_apy", "ok", fund.current_date, "-")
    /\ ncalls' = ncalls + 1
    /\ partial' = NoFrame
    /\ pc' = "idle"

SetDailyRateCall(daily_rate) ==
    /\ UNCHANGED schedule_vars
    /\ CanCall
    /\ fund' = SetDailyRate(fund, daily_rate)
    /\ call' = Call("set_daily_rate", "ok", fund.current_date, "-")
    /\ ncalls' = ncalls + 1
    /\ partial' = NoFrame
    /\ pc' = "idle"

SetInflationRateCall(rate) ==
    /\ UNCHANGED schedule_vars
    /\ CanCall
    /\ fund' = SetInflationRate(fund, rate)
    /\ call' = Call("set_inflation_rate", "ok", fund.current_date, "-")
    /\ ncalls' = ncalls + 1
    /\ partial' = NoFrame
    /\ pc' = "idle"

SetApyGeneratorCall(apy_generator) ==
    /\ UNCHANGED schedule_vars
    /\ CanCall
    /\ fund' = SetApyGenerator(fund, apy_generator)
    /\ call' = Call("set_apy_generator", "ok", fund.current_date, "-")
    /\ ncalls' = ncalls + 1
    /\ partial' = NoFrame
    /\ pc' = "idle"

Next ==
    \/ \E a \in Amounts, d \in Dates, fr \in Frequency : ContributeCall(a, d, fr)
    \/ \E d \in Dates : AdvanceTimeCall(d)
    \/ AdvanceTimeStep
    \/ \E apy \in ApyInputs : SetApyCall(apy)
    \/ \E r \in DailyRates : SetDailyRateCall(r)
    \/ \E r \in InflationRates : SetInflationRateCall(r)

Spec == Init /\ [][Next]_vars

\* the same caller, who may also install an APY source
ApyGenerators ==
    {IteratorGenerator(<< >>), IteratorGenerator(<<0>>), CallableGenerator(0)}

NextWithApyGenerator ==
    \/ Next
    \/ \E g \in ApyGenerators : SetApyGeneratorCall(g)

SpecWithApyGenerator == Init /\ [][NextWithApyGenerator]_vars

(***************************************************************************)
(* A schedule on its own: constructed, then queried and fed one-time       *)
(* transfers in any order, with no Fund to guard the dates                 *)
(***************************************************************************)
MaxScheduleCalls == 4

\* start dates on the 1st, on the 15th and between them
StartDates == {MkDate(2020, 1, 1), MkDate(2020, 1, 10), MkDate(2020, 1, 15)}

\* dates handed to get_transfers_until and add_one_time_transfer
QueryDates ==
    StartDates \cup {MkDate(2019, 12, 10), MkDate(2020, 2, 14), MkDate(2020, 3, 1)}

PeriodicAmounts == {1125}

OneTimeAmounts == {-1000}

InitialSchedules ==
    {NoneSchedule}
    \cup {MonthlySchedule(a, d) : a \in PeriodicAmounts, d \in StartDates}
    \cup {BiweeklySchedule(a, d) : a \in PeriodicAmounts, d \in StartDates}
    \cup {SemiMonthlySchedule(a, d) : a \in PeriodicAmounts, d \in StartDates}

ScheduleInit ==
    /\ FundInit
    /\ sched \in InitialSchedules
    /\ returned = << >>
    /\ scall = NoScheduleCall(sched.start_date)
    /\ nscalls = 0

GetTransfersUntilCall(next_date) ==
    /\ nscalls < MaxScheduleCalls
    /\ IF GetTransfersUntilRaises(sched, next_date)
       THEN /\ sched' = sched
            /\ returned' = << >>
            /\ scall' = ScheduleCall("get_transfers_until", "ValueError", next_date,
                                     scall, returned, returned')
       ELSE /\ LET got == GetTransfersUntil(sched, next_date)
               IN  /\ sched' = got.sched
                   /\ returned' = got.transfers
            /\ scall' = ScheduleCall("get_transfers_until", "ok", next_date,
                                     scall, returned, returned')
    /\ nscalls' = nscalls + 1
    /\ UNCHANGED fund_vars

AddOneTimeTransferCall(amount, transfer_date) ==
    /\ nscalls < MaxScheduleCalls
    /\ sched' = AddOneTimeTransfer(sched, amount, transfer_date)
    /\ returned' = << >>
    /\ scall' = ScheduleCall("add_one_time_transfer", "ok", transfer_date,
                             scall, returned, returned')
    /\ nscalls' = nscalls + 1
    /\ UNCHANGED fund_vars

InflateTransferAmountsCall(inflation_percent_rate) ==
    /\ nscalls < MaxScheduleCalls
    /\ sched' = InflateTransferAmounts(sched, inflation_percent_rate)
    /\ returned' = << >>
    /\ scall' = ScheduleCall("inflate_transfer_amounts", "ok", null_date,
                             scall, returned, returned')
    /\ nscalls' = nscalls + 1
    /\ UNCHANGED fund_vars

ScheduleNext ==
    \/ \E d \in QueryDates : GetTransfersUntilCall(d)
    \/ \E a \in OneTimeAmounts, d \in QueryDates : AddOneTimeTransferCall(a, d)
    \/ \E r \in InflationRates : InflateTransferAmountsCall(r)

ScheduleSpec == ScheduleInit /\ [][ScheduleNext]_vars

(***************************************************************************)
(* A schedule on its own that is also asked for its next transfer date     *)
(***************************************************************************)
\* sched.get_next_transfer_date(): a query, the date it returns kept as the
\* date of the call
GetNextTransferDateCall ==
    /\ nscalls < MaxScheduleCalls
    /\ sched' = sched
    /\ returned' = << >>
    /\ scall' = IF GetNextPeriodicTransferDateRaises(sched)
                THEN ScheduleCall("get_next_transfer_date", "ValueError",
                                  null_date, scall, returned, << >>)
                ELSE ScheduleCall("get_next_transfer_date", "ok",
                                  GetNextTransferDate(sched),
                                  scall, returned, << >>)
    /\ nscalls' = nscalls + 1
    /\ UNCHANGED fund_vars

ScheduleQueryNext ==
    \/ ScheduleNext
    \/ GetNextTransferDateCall

ScheduleQuerySpec == ScheduleInit /\ [][ScheduleQueryNext]_vars

(***************************************************************************)
(* Monthly schedules started at the end of a month: constructed, queried   *)
(* and asked for their next pay date                                       *)
(***************************************************************************)
\* days 29, 30 and 31, before months of 29, 30 and 31 days and after them
MonthEndStartDates ==
    {MkDate(2020, 1, 29), MkDate(2020, 1, 30), MkDate(2020, 1, 31),
     MkDate(2020, 3, 29), MkDate(2020, 3, 31), MkDate(2020, 5, 31)}

MonthEndQueryDates ==
    {MkDate(2020, 1, 31), MkDate(2020, 2, 14), MkDate(2020, 2, 29), MkDate(2020, 3, 1),
     MkDate(2020, 3, 31), MkDate(2020, 4, 30), MkDate(2020, 6, 1)}

\* sched = MonthlySchedule(amount, start_date): when the constructor raises,
\* no object is made and sched keeps the one it had
MonthlyScheduleCall(amount, start_date) ==
    /\ nscalls < MaxScheduleCalls
    /\ IF MonthlyScheduleRaises(amount, start_date)
       THEN /\ sched' = sched
            /\ scall' = ScheduleCall("MonthlySchedule", "ValueError", start_date,
                                     scall, returned, << >>)
       ELSE /\ sched' = MonthlySchedule(amount, start_date)
            /\ scall' = [NoScheduleCall(start_date) EXCEPT !.op = "MonthlySchedule"]
    /\ returned' = << >>
    /\ nscalls' = nscalls + 1
    /\ UNCHANGED fund_vars

\* sched.get_next_periodic_transfer_date(): a query, the date it returns kept
\* as the date of the call
GetNextPeriodicTransferDateCall ==
    /\ nscalls < MaxScheduleCalls
    /\ sched' = sched
    /\ returned' = << >>
    /\ scall' = IF GetNextPeriodicTransferDateRaises(sched)
                THEN ScheduleCall("get_next_periodic_transfer_date", "ValueError",
                                  null_date, scall, returned, << >>)
                ELSE ScheduleCall("get_next_periodic_transfer_date", "ok",
                                  GetNextPeriodicTransferDate(sched),
                                  scall, returned, << >>)
    /\ nscalls' = nscalls + 1
    /\ UNCHANGED fund_vars

MonthEndInit == FundInit /\ NoScheduleUse

MonthEndNext ==
    \/ \E a \in PeriodicAmounts, d \in MonthEndStartDates : MonthlyScheduleCall(a, d)
    \/ \E d \in MonthEndQueryDates : GetTransfersUntilCall(d)
    \/ GetNextPeriodicTransferDateCall

MonthEndSpec == MonthEndInit /\ [][MonthEndNext]_vars

(***************************************************************************)
(* Properties                                                              *)
(***************************************************************************)
CountType(records, t) == Len(SelectSeq(records, LAMBDA r : r.type = t))

Schedule == fund.contribution_schedule

Queue == fund.contribution_schedule.future_one_time_transfers

\* this step is a call of op (as opposed to a sub-step of advance_time)
IsCallOf(op) == ncalls' = ncalls + 1 /\ call'.op = op

\* this step is one sub-step (one advance_time_partial) of advance_time
IsSubStep == pc = "advance_time"

\* the records a step appends to the history
Appended == SubSeq(fund'.history, Len(fund.history) + 1, Len(fund'.history))

YearEndTypes == {"BALANCE", "APY", "INFLATION", "CONTRIBUTION_SUMMARY"}

(* C1: the balance, raw and as get_balance() reports it, is never negative:  *)
(* not after a completed advance_time call, nor after any of its sub-steps.  *)
C1_BalanceNonNegative ==
    fund.balance >= 0 /\ GetBalance(fund) >= 0

\* a completed advance_time whose last sub-step clamped an overdrawing withdrawal
C1_Witness ==
    /\ call.op = "advance_time" /\ call.outcome = "ok"
    /\ partial.active
    /\ partial.underflow < 0
    /\ AddUp(partial.new_contrib_records) < 0
    /\ fund.balance = 0

(* C2: every sub-step ends at the earliest of the target, the schedule's     *)
(* next transfer date (when that lies ahead) and the next January 1; so no   *)
(* sub-step spans past a periodic pay date and none consumes more than one   *)
(* periodic event.                                                           *)
C2_SubStepBounds ==
    [][IsSubStep =>
        LET from  == fund.current_date
            to    == fund'.current_date
            nt    == GetNextTransferDate(Schedule)
            np    == GetNextPeriodicTransferDate(Schedule)
            stops == {call.date, MkDate(from.year + 1, 1, 1)}
                     \cup (IF DateLT(from, nt) THEN {nt} ELSE {})
        IN  /\ to \in stops
            /\ \A d \in stops : DateLE(to, d)
            /\ ~(DateLT(from, np) /\ DateLT(np, to))
            /\ CountType(Appended, "PERIODIC") <= 1]_vars

(* C3: an accepted contribute with a frequency other than ONCE leaves the    *)
(* pending one-time transfers in the queue of the active schedule.           *)
C3_OneTimeSurvivesReplacement ==
    [][(IsCallOf("contribute") /\ call'.outcome = "ok" /\ call'.frequency # "ONCE")
        => fund'.contribution_schedule.future_one_time_transfers = Queue]_vars

(* C4: after every completed advance_time call every one-time transfer still *)
(* queued is dated strictly after current_date.                              *)
C4_QueueStrictlyFuture ==
    (pc = "idle") =>
        \A i \in 1..Len(Queue) : DateLT(fund.current_date, Queue[i][1])

(* C5: the history holds as many BALANCE, APY, INFLATION and                 *)
(* CONTRIBUTION_SUMMARY records, each, as calendar years were crossed since  *)
(* inception.                                                                *)
C5_OneCheckpointPerYear ==
    \A t \in YearEndTypes :
        CountType(fund.history, t) = fund.current_date.year - fund.inception_date.year

\* two years crossed by a fund that never saw a transfer
C5_Witness ==
    /\ fund.current_date.year = fund.inception_date.year + 2
    /\ CountType(fund.history, "PERIODIC") = 0
    /\ CountType(fund.history, "ONE_TIME") = 0
    /\ CountType(fund.history, "BALANCE") = 2

(* C6: a sub-step whose balance after growth plus consumed transfers is      *)
(* negative ends with balance 0 and appends exactly one INSUFFICIENT_FUNDS   *)
(* record; any other sub-step appends none and ends with that sum.           *)
C6_ClampOnInsolvency ==
    [][IsSubStep =>
        LET sum == fund.balance + partial'.growth
                   + AddUp(SelectSeq(Appended,
                               LAMBDA r : r.type \in {"PERIODIC", "ONE_TIME"}))
        IN  IF sum < 0
            THEN /\ fund'.balance = 0
                 /\ CountType(Appended, "INSUFFICIENT_FUNDS") = 1
            ELSE /\ fund'.balance = sum
                 /\ CountType(Appended, "INSUFFICIENT_FUNDS") = 0]_vars

\* a sub-step clamped with no transfer in it: the growth alone went below zero
C6_Witness ==
    /\ partial.active
    /\ partial.underflow < 0
    /\ partial.new_contrib_records = << >>
    /\ fund.balance = 0
    /\ fund.history[Len(fund.history)].type = "INSUFFICIENT_FUNDS"

(* C7: a sub-step that records INSUFFICIENT_FUNDS leaves the periodic amount *)
(* 0, and an amount of 0 stays 0 through every step (year-end inflation      *)
(* included) other than an accepted contribute with a frequency other than   *)
(* ONCE.                                                                     *)
C7_ZeroAmountSticks ==
    [][/\ (IsSubStep /\ CountType(Appended, "INSUFFICIENT_FUNDS") > 0)
           => fund'.contribution_schedule.amount = 0
       /\ (/\ Schedule.amount = 0
           /\ ~(IsCallOf("contribute") /\ call'.outcome = "ok"
                /\ call'.frequency # "ONCE"))
           => fund'.contribution_schedule.amount = 0]_vars

\* a periodic withdrawal zeroed by insolvency, a year end with 100% inflation later
C7_Witness ==
    /\ Schedule.frequency # "NONE"
    /\ Schedule.amount = 0
    /\ fund.inflation_rate = 100
    /\ \E i, j \in 1..Len(fund.history) :
          /\ i < j
          /\ fund.history[i].type = "INSUFFICIENT_FUNDS"
          /\ fund.history[j].type = "INFLATION"
          /\ fund.history[j].amount = 100

(* C8: a sub-step that records INSUFFICIENT_FUNDS leaves the schedule's      *)
(* frequency, start date, cursor and queued one-time transfers as the same   *)
(* sub-step without the clamp would.                                         *)
C8_InsolvencyFrame ==
    [][(IsSubStep /\ CountType(Appended, "INSUFFICIENT_FUNDS") > 0) =>
        LET d   == fund'.current_date
            g   == ApplyYearEnd(ApplyGrowth(fund, d), d)
            got == GetTransfersUntil(g.contribution_schedule, d).sched
            now == fund'.contribution_schedule
        IN  /\ now.frequency = got.frequency
            /\ now.start_date = got.start_date
            /\ now.last_transfer_date = got.last_transfer_date
            /\ now.transfer_day = got.transfer_day
            /\ now.future_one_time_transfers = got.future_one_time_transfers]_vars

\* an insolvent sub-step of a periodic schedule with a one-time transfer still queued
C8_Witness ==
    /\ partial.active
    /\ partial.underflow < 0
    /\ Schedule.frequency \in {"MONTHLY", "BIWEEKLY", "SEMIMONTHLY"}
    /\ Len(Queue) > 0

(* C9: contribute fails with FundError exactly when start_date <=            *)
(* current_date, whatever the frequency, and a failing call leaves the Fund  *)
(* (balance, current_date, history, schedule, queue) as it was.              *)
C9_ContributeGuard ==
    [][IsCallOf("contribute") =>
        /\ (call'.outcome = "FundError") <=> DateLE(call'.date, fund.current_date)
        /\ (call'.outcome = "FundError") => fund' = fund]_vars

\* a rejected contribute(_, current_date, NONE) on a fund with a history and a queue
C9_Witness ==
    /\ call.op = "contribute" /\ call.outcome = "FundError"
    /\ call.frequency = "NONE"
    /\ call.date = fund.current_date
    /\ Len(fund.history) > 0
    /\ Len(Queue) > 0

(* C10: advance_time(d) with d < current_date fails with FundError and       *)
(* changes nothing; advance_time(current_date) succeeds and changes nothing. *)
C10_AdvanceTimeGuard ==
    [][IsCallOf("advance_time") =>
        /\ DateLT(call'.date, fund.current_date)
               => (call'.outcome = "FundError" /\ fund' = fund /\ pc' = "idle")
        /\ call'.date = fund.current_date
               => (call'.outcome = "ok" /\ fund' = fund /\ pc' = "idle")
        /\ DateLT(fund.current_date, call'.date) => call'.outcome # "FundError"]_vars

\* a rejected advance_time into the past of a fund that has a history
C10_Witness ==
    /\ call.op = "advance_time" /\ call.outcome = "FundError"
    /\ DateLT(call.date, fund.current_date)
    /\ Len(fund.history) > 0

(* C11: when the APY source is an iterator that is exhausted at a year       *)
(* boundary, advance_time fails with FundError and the step that raises it   *)
(* leaves the Fund as it was: balance, total_growth, history, the schedule   *)
(* amounts and current_date.                                                 *)
C11_ExhaustedGeneratorLeavesFund ==
    [][(IsSubStep /\ ApyGeneratorRaises(fund)
        /\ NextPartialDate(fund, call.date).year > fund.current_date.year) =>
        /\ call'.outcome = "FundError"
        /\ fund'.balance = fund.balance
        /\ fund'.total_growth = fund.total_growth
        /\ fund'.history = fund.history
        /\ fund'.contribution_schedule = Schedule
        /\ fund'.current_date = fund.current_date]_vars

(* C12: no step of any operation moves current_date backward, and a          *)
(* successful advance_time(d) ends with current_date = d.                    *)
C12_DateMonotone ==
    [][/\ DateLE(fund.current_date, fund'.current_date)
       /\ (call'.op = "advance_time" /\ call'.outcome = "ok")
              => fund'.current_date = call'.date]_vars

\* a successful advance_time over two year ends, made of three sub-steps or more
C12_Witness ==
    /\ call.op = "advance_time" /\ call.outcome = "ok"
    /\ fund.current_date = call.date
    /\ call.date.year = fund.inception_date.year + 2
    /\ CountType(fund.history, "GROWTH") >= 3

(* C13: every advance_time call terminates: each sub-step moves current_date *)
(* forward by one day or more and never past the target, so the days left to *)
(* the target decrease strictly and stay non-negative; the loop is left      *)
(* exactly by the sub-step that reaches the target.                          *)
C13_AdvanceTimeTerminates ==
    [][IsSubStep =>
        /\ DaysBetween(fund'.current_date, fund.current_date) >= 1
        /\ partial'.elapsed_days >= 1
        /\ DaysBetween(call.date, fund'.current_date) >= 0
        /\ DaysBetween(call.date, fund'.current_date)
               < DaysBetween(call.date, fund.current_date)
        /\ (pc' = "idle") <=> (fund'.current_date = call.date)]_vars

\* a sub-step made while the head of the one-time queue was not after current_date
C13_Witness ==
    /\ partial.active
    /\ partial.elapsed_days >= 1
    /\ Len(Queue) > 0
    /\ DateLE(Queue[1][1], partial.prev_date)
    /\ Schedule.frequency \in {"MONTHLY", "BIWEEKLY"}

\* this step is a call of op on the schedule used on its own
IsScheduleCallOf(op) == nscalls' = nscalls + 1 /\ scall'.op = op

(* C14: for every variant, a get_transfers_until(d) made right after a       *)
(* get_transfers_until(d) with the same d returns no transfers and leaves    *)
(* last_transfer_date as it was.                                             *)
C14_SecondQueryIdle ==
    [][(/\ IsScheduleCallOf("get_transfers_until")
        /\ scall.op = "get_transfers_until"
        /\ scall'.date = scall.date) =>
        /\ returned' = << >>
        /\ sched'.last_transfer_date = sched.last_transfer_date]_vars

\* a repeated query of a semi-monthly schedule whose first query returned a
\* one-time transfer and periodic events
C14_Witness ==
    /\ scall.op = "get_transfers_until"
    /\ scall.prev_op = "get_transfers_until"
    /\ scall.prev_date = scall.date
    /\ scall.prev_returned >= 3
    /\ sched.frequency = "SEMIMONTHLY"
    /\ returned = << >>

(* C15: for every variant, None included, a get_transfers_until(d) with d    *)
(* earlier than last_transfer_date returns no periodic event and leaves      *)
(* last_transfer_date as it was.                                             *)
C15_PastQueryIdle ==
    [][(/\ IsScheduleCallOf("get_transfers_until")
        /\ DateLT(scall'.date, sched.last_transfer_date)) =>
        /\ CountType(returned', "PERIODIC") = 0
        /\ sched'.last_transfer_date = sched.last_transfer_date]_vars

(* C16: the first get_transfers_until(S) on a freshly constructed Monthly,   *)
(* Biweekly or Semimonthly schedule with start date S returns exactly one    *)
(* transaction, a PERIODIC one.                                              *)
C16_Priming ==
    [][(/\ IsScheduleCallOf("get_transfers_until")
        /\ nscalls = 0
        /\ sched.frequency \in {"MONTHLY", "BIWEEKLY", "SEMIMONTHLY"}
        /\ scall'.date = sched.start_date) =>
        /\ Len(returned') = 1
        /\ returned'[1].type = "PERIODIC"]_vars

(* C17: for every variant, a get_transfers_until(next_date) with next_date   *)
(* at or before last_transfer_date returns no PERIODIC transaction, returns  *)
(* every queued one-time transfer dated at or before next_date, and removes  *)
(* those from the queue.                                                     *)
C17_PastQueryDrainsOneTime ==
    [][(/\ IsScheduleCallOf("get_transfers_until")
        /\ DateLE(scall'.date, sched.last_transfer_date)) =>
        LET q   == sched.future_one_time_transfers
            due == SelectSeq(q, LAMBDA t : DateLE(t[1], scall'.date))
        IN  /\ CountType(returned', "PERIODIC") = 0
            /\ returned' = [i \in 1..Len(due) |-> OneTimeRecord(due[i])]
            /\ sched'.future_one_time_transfers =
                   SelectSeq(q, LAMBDA t : ~DateLE(t[1], scall'.date))]_vars

\* every amount the schedule still holds, periodic or one-time, is non-negative
NoWithdrawalScheduled ==
    /\ Schedule.amount >= 0
    /\ \A i \in 1..Len(Queue) : Queue[i][2] >= 0

(* C18: conservation.  A fund starts with balance = total_contributions = 0, *)
(* and every step taken with daily_rate = 0 and no negative amount scheduled *)
(* keeps balance = total_contributions, whatever the frequency and the       *)
(* inflation rate.                                                           *)
C18_Conservation ==
    /\ (ncalls = 0 => fund.balance = fund.total_contributions)
    /\ [][(/\ fund.balance = fund.total_contributions
           /\ fund.daily_rate = 0
           /\ NoWithdrawalScheduled)
          => fund'.balance = fund'.total_contributions]_vars

\* periodic contributions, inflated at 100% a year, received over a year end
C18_Witness ==
    /\ fund.daily_rate = 0
    /\ fund.inflation_rate = 100
    /\ fund.current_date.year > fund.inception_date.year
    /\ CountType(fund.history, "PERIODIC") >= 2
    /\ CountType(fund.history, "INSUFFICIENT_FUNDS") = 0
    /\ CountType(fund.history, "GROWTH") >= 2
    /\ \A i \in 1..Len(fund.history) :
          fund.history[i].type = "GROWTH" => fund.history[i].amount = 0
    /\ Schedule.amount > 1125
    /\ fund.balance = fund.total_contributions
    /\ fund.balance > 0

(* C19: the records a sub-step appends are, in this order: its GROWTH        *)
(* record; the four year-end records when, and only when, the sub-step       *)
(* enters a new year; its PERIODIC and ONE_TIME records; at most one         *)
(* INSUFFICIENT_FUNDS record, last.  The effects follow the same order: the  *)
(* BALANCE record shows the balance with the growth and without the          *)
(* transfers, and the periodic transfers carry the amount as the year-end    *)
(* left it.                                                                  *)
C19_SubStepOrder ==
    [][IsSubStep =>
        LET A        == Appended
            crossing == fund'.current_date.year > fund.current_date.year
            k        == IF crossing THEN 5 ELSE 1
            amount   == IF crossing
                        THEN Inflated(Schedule.amount, fund.inflation_rate)
                        ELSE Schedule.amount
        IN  /\ Len(A) >= k
            /\ A[1].type = "GROWTH"
            /\ A[1].amount = NearestHundredth(partial'.growth)
            /\ crossing =>
                  /\ <<A[2].type, A[3].type, A[4].type, A[5].type>> =
                         <<"BALANCE", "APY", "INFLATION", "CONTRIBUTION_SUMMARY">>
                  /\ A[2].amount = NearestHundredth(fund.balance + partial'.growth)
            /\ \A i \in (k + 1)..Len(A) :
                  \/ A[i].type \in {"PERIODIC", "ONE_TIME"}
                  \/ A[i].type = "INSUFFICIENT_FUNDS" /\ i = Len(A)
            /\ \A i \in 1..Len(A) :
                  A[i].type = "PERIODIC" => A[i].amount = amount]_vars

\* a sub-step into a new year that closed the year at 100% inflation, then
\* paid a periodic withdrawal at the doubled amount and was clamped
C19_Witness ==
    /\ partial.active
    /\ partial.new_date.year > partial.prev_date.year
    /\ fund.inflation_rate = 100
    /\ Len(fund.history) >= 7
    /\ LET n == Len(fund.history)
       IN  /\ [i \in 1..7 |-> fund.history[n - 7 + i].type] =
                  <<"GROWTH", "BALANCE", "APY", "INFLATION",
                    "CONTRIBUTION_SUMMARY", "PERIODIC", "INSUFFICIENT_FUNDS">>
           /\ fund.history[n - 1].amount = -2000

(* C20: a sub-step of n days ends with the balance                           *)
(* pre_balance * (1 + daily_rate)^n plus the transfers it consumed, clamped  *)
(* at 0; the growth it books is that of the pre-step balance alone, so an    *)
(* amount that arrives in the sub-step earns nothing in it.                  *)
C20_GrowthOnPreStepBalance ==
    [][IsSubStep =>
        LET n         == DaysBetween(fund'.current_date, fund.current_date)
            grown     == fund.balance * Pow(1 + fund.daily_rate, n)
            transfers == AddUp(SelectSeq(Appended,
                             LAMBDA r : r.type \in {"PERIODIC", "ONE_TIME"}))
        IN  /\ fund'.balance = (IF grown + transfers < 0 THEN 0 ELSE grown + transfers)
            /\ fund'.total_growth = fund.total_growth + (grown - fund.balance)
            /\ partial'.growth = grown - fund.balance]_vars

\* at a daily rate of -1 a one-time contribution arrived in a sub-step that
\* booked no growth, and the next sub-step booked growth on it
C20_Witness ==
    /\ fund.daily_rate = -1
    /\ \E i, j, k \in 1..Len(fund.history) :
          /\ i < j /\ j < k
          /\ fund.history[i].type = "GROWTH" /\ fund.history[i].amount = 0
          /\ fund.history[j].type = "ONE_TIME" /\ fund.history[j].amount = 1125
          /\ fund.history[k].type = "GROWTH" /\ fund.history[k].amount < 0
          /\ \A m \in (i + 1)..(j - 1) : fund.history[m].type # "GROWTH"

\* the transfers a sub-step applied to the balance: what it consumed, less the
\* shortfall the clamp took back out
NetTransfers == AddUp(partial'.new_contrib_records) - partial'.underflow

(* C21: a sub-step that enters a new year appends the four records BALANCE,  *)
(* APY, INFLATION, CONTRIBUTION_SUMMARY, consecutive and in that order, all  *)
(* dated December 31 of the year it leaves, and restarts                     *)
(* contributions_this_year from 0; any other sub-step appends none of them   *)
(* and lets the counter run on.                                              *)
C21_YearEndRecords ==
    [][IsSubStep =>
        LET A        == Appended
            crossing == fund'.current_date.year > fund.current_date.year
            dec31    == MkDate(fund'.current_date.year - 1, 12, 31)
        IN  /\ \A t \in YearEndTypes :
                  CountType(A, t) = (IF crossing THEN 1 ELSE 0)
            /\ crossing =>
                  /\ fund.current_date.year = dec31.year
                  /\ [i \in 1..4 |-> A[i + 1].type] =
                         <<"BALANCE", "APY", "INFLATION", "CONTRIBUTION_SUMMARY">>
                  /\ \A i \in 2..5 : A[i].date = dec31
                  /\ fund'.contributions_this_year = NetTransfers
            /\ ~crossing =>
                  fund'.contributions_this_year =
                      fund.contributions_this_year + NetTransfers]_vars

\* a checkpoint that closed a year with contributions and left the counter at 0
C21_Witness ==
    /\ partial.active
    /\ partial.new_date = MkDate(partial.prev_date.year + 1, 1, 1)
    /\ partial.new_contrib_records = << >>
    /\ fund.contributions_this_year = 0
    /\ LET last == fund.history[Len(fund.history)]
       IN  /\ last.type = "CONTRIBUTION_SUMMARY"
           /\ last.amount > 0
           /\ last.date = MkDate(partial.prev_date.year, 12, 31)

IsTransfer(r) == r.type \in {"PERIODIC", "ONE_TIME"}

\* the records between the CONTRIBUTION_SUMMARY at index j and the one before it
SummarySegment(j) ==
    LET before == {i \in 1..(j - 1) : fund.history[i].type = "CONTRIBUTION_SUMMARY"}
        i0     == IF before = {} THEN 0
                  ELSE CHOOSE i \in before : \A k \in before : k <= i
    IN  SubSeq(fund.history, i0 + 1, j - 1)

SummaryIndices ==
    {j \in 1..Len(fund.history) : fund.history[j].type = "CONTRIBUTION_SUMMARY"}

(* C22 as stated: the CONTRIBUTION_SUMMARY that closes a year equals the sum *)
(* of the transfers applied in the sub-steps that ended in that year.        *)
C22_SummaryIsSum ==
    /\ [](\A j \in SummaryIndices :
            CountType(SummarySegment(j), "INSUFFICIENT_FUNDS") = 0 =>
                fund.history[j].amount =
                    AddUp(SelectSeq(SummarySegment(j), IsTransfer)))
    /\ [][(IsSubStep /\ fund'.current_date.year > fund.current_date.year) =>
            Appended[5].amount = fund.contributions_this_year]_vars

(* C22, amended: the CONTRIBUTION_SUMMARY that closes a year is the sum,     *)
(* rounded to the cent, of the transfers applied (net of clamped shortfall)  *)
(* in the sub-steps that ended in that year; the transfers of the sub-step   *)
(* that enters the next year start the next year's sum, and the sum restarts *)
(* from 0 at every checkpoint.                                               *)
C22_SummaryIsRoundedSum ==
    /\ [](\A j \in SummaryIndices :
            CountType(SummarySegment(j), "INSUFFICIENT_FUNDS") = 0 =>
                fund.history[j].amount =
                    NearestHundredth(AddUp(SelectSeq(SummarySegment(j), IsTransfer))))
    /\ [][/\ (IsSubStep /\ fund'.current_date.year > fund.current_date.year) =>
                /\ Appended[5].type = "CONTRIBUTION_SUMMARY"
                /\ Appended[5].amount = NearestHundredth(fund.contributions_this_year)
                /\ fund'.contributions_this_year = NetTransfers
          /\ (IsSubStep /\ fund'.current_date.year = fund.current_date.year) =>
                fund'.contributions_this_year =
                    fund.contributions_this_year + NetTransfers
          /\ ~IsSubStep =>
                fund'.contributions_this_year = fund.contributions_this_year]_vars

\* two years closed: the first with a one-time contribution of 1.125, summed up
\* as 1.12, the second with the transfers that arrived from January 1 on
C22_Witness ==
    /\ Cardinality(SummaryIndices) = 2
    /\ \E i, j \in SummaryIndices :
          /\ i < j
          /\ fund.history[i].amount = 1120
          /\ CountType(SummarySegment(i), "ONE_TIME") = 1
          /\ CountType(SummarySegment(j), "PERIODIC") >= 1
          /\ fund.history[j].amount # 0

(* C23: a sub-step that enters a new year multiplies the periodic amount and *)
(* every queued one-time amount once by (1 + inflation_rate/100), at the     *)
(* rate then in force, before it consumes its transfers: what it pays out    *)
(* (a transfer due on January 1 included) and what it leaves queued carry    *)
(* the inflated amounts.  Any other sub-step pays and keeps the amounts as   *)
(* they were, and no other operation inflates an amount still scheduled.     *)
C23_InflationOncePerYear ==
    [][/\ IsSubStep =>
            LET crossing == fund'.current_date.year > fund.current_date.year
                Infl(x)  == IF crossing THEN Inflated(x, fund.inflation_rate) ELSE x
                paid     == SelectSeq(Appended, LAMBDA r : r.type = "ONE_TIME")
                clamped  == CountType(Appended, "INSUFFICIENT_FUNDS") > 0
            IN  /\ \A i \in 1..Len(Appended) :
                      Appended[i].type = "PERIODIC" =>
                          Appended[i].amount = Infl(Schedule.amount)
                /\ fund'.contribution_schedule.amount =
                       (IF clamped THEN 0 ELSE Infl(Schedule.amount))
                /\ [i \in 1..Len(paid) |-> <<paid[i].date, paid[i].amount>>]
                       \o fund'.contribution_schedule.future_one_time_transfers
                   = [i \in 1..Len(Queue) |-> <<Queue[i][1], Infl(Queue[i][2])>>]
       /\ (~IsSubStep /\ ~IsCallOf("contribute")) =>
            fund'.contribution_schedule = Schedule]_vars

\* at 100% inflation, a periodic contribution of 1.125 due on January 1 was paid
\* as 2.25 by the sub-step that closed the year
C23_Witness ==
    /\ partial.active
    /\ partial.new_date = MkDate(partial.prev_date.year + 1, 1, 1)
    /\ fund.inflation_rate = 100
    /\ Len(partial.new_contrib_records) = 1
    /\ partial.new_contrib_records[1].type = "PERIODIC"
    /\ partial.new_contrib_records[1].amount = 2250
    /\ Schedule.amount = 2250

(* C24: an accepted contribute(amount, date, ONCE) adds one entry            *)
(* (date, amount) to the one-time queue and changes nothing else: not the    *)
(* schedule's frequency, amount, start date or cursor, not the history, the  *)
(* balance or current_date.                                                  *)
C24_OnceOnlyEnqueues ==
    [][(IsCallOf("contribute") /\ call'.outcome = "ok" /\ call'.frequency = "ONCE") =>
        \E a \in Amounts :
            fund' = [fund EXCEPT
                        !.contribution_schedule.future_one_time_transfers =
                            SortByDate(Append(Queue, <<call'.date, a>>))]]_vars

\* a second one-time contribution accepted by a fund with an active periodic schedule
C24_Witness ==
    /\ call.op = "contribute" /\ call.outcome = "ok" /\ call.frequency = "ONCE"
    /\ Schedule.frequency \in {"MONTHLY", "BIWEEKLY", "SEMIMONTHLY"}
    /\ Schedule.amount # 0
    /\ Len(Queue) = 2
    /\ CountType(fund.history, "PERIODIC_CHANGE") = 1

(* C25: a fresh Fund has no PERIODIC_CHANGE record; an accepted contribute   *)
(* with a frequency other than ONCE appends exactly one, dated at the start  *)
(* date and naming the frequency of the schedule still active, when the new  *)
(* frequency differs from that one, and appends nothing when it is the same; *)
(* no other step appends a PERIODIC_CHANGE record.                           *)
C25_PeriodicChangeLogged ==
    /\ (ncalls = 0 => CountType(fund.history, "PERIODIC_CHANGE") = 0)
    /\ [][IF IsCallOf("contribute") /\ call'.outcome = "ok" /\ call'.frequency # "ONCE"
          THEN IF Schedule.frequency # call'.frequency
               THEN /\ Len(Appended) = 1
                    /\ Appended[1].type = "PERIODIC_CHANGE"
                    /\ Appended[1].date = call'.date
                    /\ Appended[1].description =
                           "Change from Frequency." \o Schedule.frequency
                           \o " to Frequency." \o call'.frequency
                    /\ fund'.contribution_schedule.frequency = call'.frequency
               ELSE fund'.history = fund.history
          ELSE CountType(Appended, "PERIODIC_CHANGE") = 0]_vars

\* a second contribute at the frequency already active was accepted and logged nothing
C25_Witness ==
    /\ call.op = "contribute" /\ call.outcome = "ok" /\ call.frequency = "BIWEEKLY"
    /\ CountType(fund.history, "PERIODIC_CHANGE") = 1
    /\ \E i \in 1..Len(fund.history) :
          /\ fund.history[i].type = "PERIODIC_CHANGE"
          /\ fund.history[i].description =
                 "Change from Frequency.NONE to Frequency.BIWEEKLY"
          /\ fund.history[i].date # call.date
    /\ Schedule.start_date = call.date

\* the description a schedule variant gives its PERIODIC transactions
PeriodicDescription(frequency) ==
    CASE frequency = "MONTHLY"     -> "Monthly"
      [] frequency = "BIWEEKLY"    -> "Biweekly"
      [] frequency = "SEMIMONTHLY" -> "Semi-Monthly"
      [] OTHER                     -> "-"

(* C26: an accepted contribute with a frequency other than ONCE installs the *)
(* new schedule at once (its frequency, amount, start date and primed        *)
(* cursor).  From then on every PERIODIC transfer is one of the schedule now *)
(* active, never of a replaced one, and none is dated before that schedule's *)
(* start date; a None schedule yields no PERIODIC transfer, and with         *)
(* daily_rate 0 and an empty one-time queue a sub-step leaves the balance    *)
(* as it was.                                                                *)
C26_ReplacementImmediate ==
    [][/\ (IsCallOf("contribute") /\ call'.outcome = "ok" /\ call'.frequency # "ONCE") =>
            \E a \in Amounts :
                LET new == NewSchedule(a, call'.date, call'.frequency)
                    now == fund'.contribution_schedule
                IN  /\ now.frequency = call'.frequency
                    /\ now.amount = new.amount
                    /\ now.start_date = new.start_date
                    /\ now.last_transfer_date = new.last_transfer_date
       /\ IsSubStep =>
            /\ \A i \in 1..Len(Appended) :
                  Appended[i].type = "PERIODIC" =>
                      /\ Schedule.frequency # "NONE"
                      /\ Appended[i].description = PeriodicDescription(Schedule.frequency)
                      /\ DateLE(Schedule.start_date, Appended[i].date)
            /\ (Schedule.frequency = "NONE" /\ fund.daily_rate = 0 /\ Queue = << >>) =>
                  /\ fund'.balance = fund.balance
                  /\ CountType(Appended, "ONE_TIME") = 0]_vars

\* a biweekly schedule due on 2019-12-25 was replaced, before it ever paid, by a
\* monthly one starting on 2020-01-22; all that was paid since is monthly
C26_Witness ==
    /\ CountType(fund.history, "PERIODIC_CHANGE") = 2
    /\ CountType(fund.history, "PERIODIC") >= 2
    /\ Schedule.frequency = "MONTHLY"
    /\ Schedule.start_date = MkDate(2020, 1, 22)
    /\ \E i \in 1..Len(fund.history) :
          /\ fund.history[i].type = "PERIODIC_CHANGE"
          /\ fund.history[i].date = MkDate(2019, 12, 25)
          /\ fund.history[i].description =
                 "Change from Frequency.NONE to Frequency.BIWEEKLY"
    /\ \A i \in 1..Len(fund.history) :
          fund.history[i].type = "PERIODIC" =>
              /\ fund.history[i].description = "Monthly"
              /\ DateLE(MkDate(2020, 1, 22), fund.history[i].date)

(***************************************************************************)
(* Pay dates of the periodic variants, counted from the calendar           *)
(***************************************************************************)
\* the date k months after dt, on the same day of the month
MonthsAfter(dt, k) ==
    MkDate(dt.year + ((dt.month - 1 + k) \div 12), ((dt.month - 1 + k) % 12) + 1, dt.day)

\* the number of k >= 0 for which the date k months after S is on or before d
MonthlyPayDatesUpTo(S, d) ==
    Cardinality({k \in 0..(12 * (d.year - S.year) + d.month - S.month) :
                    DateLE(MonthsAfter(S, k), d)})

BiweeklyPayDatesUpTo(S, d) ==
    IF DateLE(S, d) THEN (DaysBetween(d, S) \div 14) + 1 ELSE 0

SemiMonthlyPayDatesIn(S, d) ==
    {o \in Ordinal(S)..Ordinal(d) : FromOrdinal(o).day \in {1, 15}}

C30_MonthEndNeverFails ==
    /\ (scall.op = "MonthlySchedule" /\ scall.date.day \in 29..31) =>
           scall.outcome = "ok"
    /\ (sched.frequency = "MONTHLY" /\ sched.start_date.day \in 29..31) =>
           /\ scall.op \in {"get_transfers_until", "get_next_periodic_transfer_date"} =>
                 scall.outcome = "ok"
           /\ IsValidDate(sched.last_transfer_date)
           /\ IsValidDate(MonthlyGetRelativeTransferDate(sched, 1))

\* the earliest date among the one-time transfers of a non-empty queue,
\* wherever in the queue it stands
EarliestOneTimeDate(q) ==
    LET i == CHOOSE i \in 1..Len(q) : \A j \in 1..Len(q) : DateLE(q[i][1], q[j][1])
    IN  q[i][1]

\* C31: get_next_transfer_date returns the earlier of the next periodic date
\* and the date of the earliest pending one-time transfer; with nothing
\* pending it returns the next periodic date, and for a NoneSchedule with
\* pending one-time transfers it returns the earliest of their dates.  It
\* changes neither the cursor nor the queue.
C31_NextTransferDate ==
    [][IsScheduleCallOf("get_next_transfer_date") =>
          LET q == sched.future_one_time_transfers
              p == GetNextPeriodicTransferDate(sched)
          IN  /\ sched' = sched
              /\ scall'.outcome = "ok"
              /\ q = << >> => scall'.date = p
              /\ (q # << >> /\ sched.frequency = "NONE") =>
                     scall'.date = EarliestOneTimeDate(q)
              /\ (q # << >> /\ sched.frequency # "NONE") =>
                     scall'.date = IF DateLT(EarliestOneTimeDate(q), p)
                                   THEN EarliestOneTimeDate(q) ELSE p]_vars

\* a Monthly schedule started on January 15 with one-time transfers added for
\* February 14 and then for January 10: the next transfer date is January 10
C31_Witness ==
    /\ scall.op = "get_next_transfer_date" /\ scall.outcome = "ok"
    /\ sched.frequency = "MONTHLY" /\ sched.start_date = MkDate(2020, 1, 15)
    /\ Len(sched.future_one_time_transfers) = 2
    /\ scall.prev_op = "add_one_time_transfer" /\ scall.prev_date = MkDate(2020, 1, 10)
    /\ scall.date = MkDate(2020, 1, 10)

\* a queue in ascending order of date
IsSortedByDate(q) == \A i \in 1..Len(q) : \A j \in i..Len(q) : DateLE(q[i][1], q[j][1])

\* the number of one-time transfers queued for date d
QueuedFor(q, d) == Len(SelectSeq(q, LAMBDA t : t[1] = d))

\* the number of ONE_TIME transactions dated d in a returned list
ReturnedFor(records, d) ==
    Len(SelectSeq(records, LAMBDA r : r.type = "ONE_TIME" /\ r.date = d))

\* C32: the one-time queue is in ascending order of date after every
\* add_one_time_transfer and every get_transfers_until, whatever the order of
\* insertion; two transfers added for the same date are both kept, and the
\* get_transfers_until call that first reaches their date returns both.
C32_QueueSortedSameDateTogether ==
    /\ [](IsSortedByDate(sched.future_one_time_transfers))
    /\ [][/\ \A d \in QueryDates :
               (IsScheduleCallOf("add_one_time_transfer") /\ scall'.date = d) =>
                   QueuedFor(sched'.future_one_time_transfers, d)
                       = QueuedFor(sched.future_one_time_transfers, d) + 1
          /\ \A d \in QueryDates :
               (/\ IsScheduleCallOf("get_transfers_until")
                /\ DateLE(d, scall'.date)
                /\ QueuedFor(sched.future_one_time_transfers, d) >= 2) =>
                   /\ ReturnedFor(returned', d) = QueuedFor(sched.future_one_time_transfers, d)
                   /\ QueuedFor(sched'.future_one_time_transfers, d) = 0]_vars

\* C33: an insolvent sub-step sets the schedule's periodic amount to 0 only
\* when a periodic withdrawal caused the shortfall: when the periodic amount
\* is a contribution (not negative) and the shortfall comes from a one-time
\* withdrawal alone, the sub-step leaves the periodic amount as it was.
C33_ZeroedOnlyForPeriodicWithdrawal ==
    [][(IsSubStep /\ CountType(Appended, "INSUFFICIENT_FUNDS") > 0) =>
        LET d   == fund'.current_date
            g   == ApplyYearEnd(ApplyGrowth(fund, d), d)
            got == GetTransfersUntil(g.contribution_schedule, d).sched
        IN  got.amount >= 0 => fund'.contribution_schedule.amount = got.amount]_vars

\* floor(v * 100 + 1/2) / 100 on a value counted in thousandths
RoundHalfUp(value) == 10 * ((value + 5) \div 10)

RoundedTypes == {"GROWTH", "BALANCE", "CONTRIBUTION_SUMMARY", "INSUFFICIENT_FUNDS"}

\* C34: cent rounding is round-half-up: nearest_hundredth(v) is
\* floor(v * 100 + 1/2) / 100 for every value v the Fund holds (0.125 gives
\* 0.13), get_balance() is the balance rounded by that rule, and every recorded
\* GROWTH, BALANCE, CONTRIBUTION_SUMMARY and INSUFFICIENT_FUNDS amount is a
\* whole number of cents.
C34_RoundHalfUp ==
    /\ \A v \in {fund.balance, fund.total_growth, fund.total_contributions,
                  fund.contributions_this_year} :
          NearestHundredth(v) = RoundHalfUp(v)
    /\ GetBalance(fund) = RoundHalfUp(fund.balance)
    /\ \A i \in 1..Len(fund.history) :
          fund.history[i].type \in RoundedTypes => fund.history[i].amount % 10 = 0

\* C35: a sub-step that enters a new year ends exactly on January 1 of that
\* year, so the growth it books covers the days up to January 1 and none
\* after; the BALANCE record of its checkpoint is get_balance() after that
\* growth has been added and before any transfer due on that January 1 is
\* applied.
C35_BalanceAtJanFirst ==
    [][(IsSubStep /\ fund'.current_date.year > fund.current_date.year) =>
        LET jan1   == MkDate(fund.current_date.year + 1, 1, 1)
            growth == Growth(fund, DaysBetween(jan1, fund.current_date))
        IN  /\ fund'.current_date = jan1
            /\ partial'.elapsed_days = DaysBetween(jan1, fund.current_date)
            /\ partial'.growth = growth
            /\ Appended[1].type = "GROWTH" /\ Appended[1].date = jan1
            /\ Appended[2].type = "BALANCE"
            /\ Appended[2].amount = NearestHundredth(fund.balance + growth)
            /\ fund'.balance = fund.balance + growth + NetTransfers]_vars

\* a checkpoint whose sub-step also applied a transfer due on January 1: the
\* BALANCE record does not include it
C35_Witness ==
    /\ partial.active
    /\ partial.new_date = MkDate(partial.prev_date.year + 1, 1, 1)
    /\ \E i \in 1..Len(partial.new_contrib_records) :
          partial.new_contrib_records[i].date = partial.new_date
    /\ \E j \in 1..Len(fund.history) :
          /\ fund.history[j].type = "BALANCE"
          /\ fund.history[j].date = MkDate(partial.prev_date.year, 12, 31)
          /\ fund.history[j].amount # GetBalance(fund)

\* C36: in every state of a Fund created with balance 0, the unrounded
\* balance is total_contributions + total_growth, whatever contribute, rate
\* changes and advance_time calls were made, sub-steps clamped for insolvency
\* included.
C36_AccountingIdentity ==
    fund.balance = fund.total_contributions + fund.total_growth

\* a sub-step clamped for insolvency whose withdrawal was covered in part
C36_Witness ==
    /\ partial.active
    /\ partial.underflow < 0
    /\ AddUp(partial.new_contrib_records) < partial.underflow
    /\ fund.balance = 0

\* the transfers applied according to the history alone: the PERIODIC and
\* ONE_TIME amounts, less the (negative) INSUFFICIENT_FUNDS amounts
LedgerTransfers ==
    AddUp(SelectSeq(fund.history, IsTransfer))
    - AddUp(SelectSeq(fund.history, LAMBDA r : r.type = "INSUFFICIENT_FUNDS"))

\* C37 as stated: in every state total_contributions is the sum of the
\* amounts of the PERIODIC and ONE_TIME records of the history minus the sum
\* of the amounts of its INSUFFICIENT_FUNDS records.
C37_LedgerReconciles == fund.total_contributions = LedgerTransfers

\* C37, amended: the history reproduces total_contributions to within half a
\* cent for each INSUFFICIENT_FUNDS record, the shortfall being recorded
\* rounded to the cent; it reproduces it exactly while there is no such record.
C37_LedgerReconcilesWithinRounding ==
    LET n    == CountType(fund.history, "INSUFFICIENT_FUNDS")
        diff == fund.total_contributions - LedgerTransfers
    IN  /\ diff <= 5 * n
        /\ -diff <= 5 * n

\* a withdrawal covered in part, its shortfall not a whole number of cents:
\* the history and total_contributions differ by the rounding
C37_Witness ==
    /\ partial.active
    /\ partial.underflow < 0
    /\ AddUp(partial.new_contrib_records) < partial.underflow
    /\ partial.underflow % 10 # 0
    /\ fund.total_contributions # LedgerTransfers

\* what C38 compares of two Funds: the balance, the totals, the schedule with
\* its amount, cursor and one-time queue, and the transfer and year-end
\* records of the history
SplitOutcome(f) ==
    [balance |-> f.balance,
     total_contributions |-> f.total_contributions,
     total_growth |-> f.total_growth,
     contribution_schedule |-> f.contribution_schedule,
     records |-> SelectSeq(f.history,
                           LAMBDA r : IsTransfer(r) \/ r.type \in YearEndTypes)]

\* C38: from any state of the Fund between calls, and for any dates d1 <= d2
\* not before its current date, advance_time(d1) followed by advance_time(d2)
\* leaves the same balance, totals, schedule amount, cursor, one-time queue
\* and the same PERIODIC, ONE_TIME and year-end records as advance_time(d2)
\* alone.
C38_SplitAdvance ==
    pc = "idle" =>
        \A d1 \in Dates, d2 \in Dates :
            (DateLE(fund.current_date, d1) /\ DateLE(d1, d2)) =>
                SplitOutcome(AdvanceTime(AdvanceTime(fund, d1), d2))
                    = SplitOutcome(AdvanceTime(fund, d2))

\* the index of the last GROWTH record before index j of the history, 0 when
\* there is none
LastGrowthBefore(j) ==
    LET before == {i \in 1..(j - 1) : fund.history[i].type = "GROWTH"}
    IN  IF before = {} THEN 0
        ELSE CHOOSE i \in before : \A k \in before : k <= i

\* C39 as stated: the dates of the history never decrease from one record to
\* the next, and no record is dated later than current_date.
C39_HistoryChronological ==
    /\ \A i \in 1..(Len(fund.history) - 1) :
          DateLE(fund.history[i].date, fund.history[i + 1].date)
    /\ \A i \in 1..Len(fund.history) :
          DateLE(fund.history[i].date, fund.current_date)

\* C39, amended: the history is in the order of appending.  The GROWTH
\* records, one for each sub-step and dated at its end, have strictly
\* increasing dates; every other record a sub-step appends is dated on or
\* before that end (the year-end records on December 31, the day before; a
\* one-time transfer on its own due date); and no record other than a
\* PERIODIC_CHANGE, which carries the start date of the schedule to come, is
\* dated later than current_date.
C39_HistoryOrderedBySubStep ==
    \A j \in 1..Len(fund.history) :
        LET r == fund.history[j]
            g == LastGrowthBefore(j)
        IN  r.type # "PERIODIC_CHANGE" =>
                /\ DateLE(r.date, fund.current_date)
                /\ (r.type = "GROWTH" /\ g # 0) => DateLT(fund.history[g].date, r.date)
                /\ r.type # "GROWTH" =>
                      /\ g # 0
                      /\ DateLE(r.date, fund.history[g].date)

\* a history out of date order: the GROWTH record of January 1 followed by
\* the BALANCE record of December 31, after a PERIODIC_CHANGE dated ahead of
\* the Fund's date when it was logged
C39_Witness ==
    /\ \E i \in 1..(Len(fund.history) - 1) :
          /\ fund.history[i].type = "GROWTH"
          /\ fund.history[i + 1].type = "BALANCE"
          /\ DateLT(fund.history[i + 1].date, fund.history[i].date)
    /\ \E i \in 1..(Len(fund.history) - 1) :
          /\ fund.history[i].type = "PERIODIC_CHANGE"
          /\ DateLT(fund.history[i + 1].date, fund.history[i].date)

====
